---- MODULE Spec2Model ----
(***************************************************************************)
(* Model of the labour schedulers of multi-agent-optimisation:             *)
(*   labour_scheduler.py      ortools_scheduler, generate_optimized_schedule*)
(*   labour_scheduler_poc.py  ortools_fallback, run_scheduler               *)
(* Times of day are kept as the character strings the employee tables hold *)
(* and are parsed the way the code parses them.  The CP-SAT solver is a    *)
(* library: Solve is modelled by its contract (OPTIMAL/FEASIBLE carry an   *)
(* assignment satisfying every constraint added to the model, OPTIMAL one  *)
(* that maximises the objective, INFEASIBLE only if none exists).          *)
(***************************************************************************)
EXTENDS Integers, Sequences, FiniteSets, TLC

VARIABLES
  employees,        \* the employee table of the call
  requirements,     \* the requirements dictionary of the call
  pc,               \* where the call or the run stands
  solver_status,    \* the status solver.Solve returned, "NOT_SOLVED" before
  solver_values,    \* solver.Value of every variable, None without a solution
  ortools_result,   \* what ortools_scheduler returned
  reviewed,         \* reviewed.summary of the latest review chat, None before
  check,            \* the marker test of line 490: "none", "passed" or "rejected"
  agent_returned,   \* initiate_chat calls that returned in this run
  agent_raised,     \* initiate_chat calls that raised in this run
  solver_calls,     \* calls of ortools_scheduler in this run
  result,           \* the result dictionary of generate_optimized_schedule
  final_message,    \* run_scheduler: content of the last group chat message
  schedule,         \* run_scheduler: the schedule it holds
  schedule_file,    \* run_scheduler: the text of schedule.json, None while not written
  fallback_calls,   \* run_scheduler: calls of ortools_fallback
  max_iterations,   \* optimize_schedule: the argument max_iterations
  current_schedule, \* optimize_schedule: current_schedule, None before the first chat
  raised            \* optimize_schedule: the exception that left the call, None if none

solverVars == <<employees, requirements, pc, solver_status, solver_values, ortools_result>>
runVars == <<reviewed, check, agent_returned, agent_raised, solver_calls, result>>
pocVars == <<final_message, schedule, schedule_file, fallback_calls>>
solverData == <<employees, requirements, solver_status, solver_values, ortools_result>>
simpleVars == <<max_iterations, current_schedule, raised>>
vars == <<solverVars, runVars, pocVars, simpleVars>>

\* Python's None
None == <<>>

\* run_scheduler is not running
PocIdle ==
  /\ final_message = None
  /\ schedule = None
  /\ schedule_file = None
  /\ fallback_calls = 0

\* optimize_schedule is not running
SimpleIdle ==
  /\ max_iterations = None
  /\ current_schedule = None
  /\ raised = None

(***************************************************************************)
(* Text: a string is a sequence of one-character strings.                  *)
(***************************************************************************)
Digits == {"0", "1", "2", "3", "4", "5", "6", "7", "8", "9"}

DigitVal(c) ==
  CASE c = "0" -> 0 [] c = "1" -> 1 [] c = "2" -> 2 [] c = "3" -> 3
    [] c = "4" -> 4 [] c = "5" -> 5 [] c = "6" -> 6 [] c = "7" -> 7
    [] c = "8" -> 8 [] c = "9" -> 9

\* str.split(":"): the pieces between the separators, empty pieces included
RECURSIVE SplitFrom(_, _, _)
SplitFrom(s, i, cur) ==
  IF i > Len(s) THEN <<cur>>
  ELSE IF s[i] = ":" THEN <<cur>> \o SplitFrom(s, i + 1, <<>>)
  ELSE SplitFrom(s, i + 1, Append(cur, s[i]))

Split(s) == SplitFrom(s, 1, <<>>)

\* int(piece): decimal digits only here; anything else raises ValueError
IsInt(p) == Len(p) > 0 /\ \A i \in 1..Len(p) : p[i] \in Digits

RECURSIVE IntOf(_)
IntOf(p) == IF p = <<>> THEN 0 ELSE 10 * IntOf(SubSeq(p, 1, Len(p) - 1)) + DigitVal(p[Len(p)])

\* time(*map(int, text.split(":"))): hour, minute, second, microsecond, the
\* missing ones 0; a field out of range or a piece that is no integer raises
TimeFieldMax == <<23, 59, 59, 999999>>

ParseFails(text) ==
  LET parts == Split(text) IN
    \/ Len(parts) > 4
    \/ \E i \in 1..Len(parts) : ~IsInt(parts[i])
    \/ \E i \in 1..Len(parts) : IsInt(parts[i]) /\ IntOf(parts[i]) > TimeFieldMax[i]

ParseTime(text) ==
  LET parts == Split(text) IN
    [i \in 1..4 |-> IF i <= Len(parts) THEN IntOf(parts[i]) ELSE 0]

\* datetime.time ordering: field by field
TimeLE(a, b) ==
  \/ a = b
  \/ \E i \in 1..4 : a[i] < b[i] /\ \A j \in 1..(i - 1) : a[j] = b[j]

Time(h, m) == <<h, m, 0, 0>>


(***************************************************************************)
(* ortools_scheduler: the horizon, the shifts and the constraint system.   *)
(***************************************************************************)
days == <<"Monday", "Tuesday", "Wednesday", "Thursday", "Friday", "Saturday", "Sunday">>

ShiftNames == <<"morning", "afternoon", "evening">>

shifts ==
  [s \in {"morning", "afternoon", "evening"} |->
     CASE s = "morning" -> <<Time(9, 0), Time(14, 0)>>
       [] s = "afternoon" -> <<Time(14, 0), Time(19, 0)>>
       [] s = "evening" -> <<Time(19, 0), Time(22, 0)>>]

shift_durations ==
  [s \in {"morning", "afternoon", "evening"} |->
     CASE s = "morning" -> 5 * 60
       [] s = "afternoon" -> 5 * 60
       [] s = "evening" -> 3 * 60]

DaySet == {days[d] : d \in 1..Len(days)}
ShiftSet == DOMAIN shifts

RECURSIVE SumSeq(_)
SumSeq(q) == IF q = <<>> THEN 0 ELSE Head(q) + SumSeq(Tail(q))

MaxOf(S) == CHOOSE m \in S : \A n \in S : n <= m

\* the availability test with the start of the window held against the end of the shift
AvailableStartAgainstEnd(emp, day, shift_name) ==
  /\ emp.availability[day] # None
  /\ LET avail_start == ParseTime(emp.availability[day][1])
         avail_end == ParseTime(emp.availability[day][2])
         shift_end == shifts[shift_name][2]
     IN TimeLE(avail_start, shift_end) /\ TimeLE(shift_end, avail_end)

\* the availability test of one (employee, day, shift)
Available(emp, day, shift_name) ==
  /\ emp.availability[day] # None
  /\ LET avail_start == ParseTime(emp.availability[day][1])
         avail_end == ParseTime(emp.availability[day][2])
         shift_start == shifts[shift_name][1]
         shift_end == shifts[shift_name][2]
     IN TimeLE(avail_start, shift_start) /\ TimeLE(shift_end, avail_end)

\* building the variables raises when an availability text does not parse
BuildRaises(emps) ==
  \E i \in 1..Len(emps), day \in DaySet :
     /\ emps[i].availability[day] # None
     /\ \/ ParseFails(emps[i].availability[day][1])
        \/ ParseFails(emps[i].availability[day][2])

\* shifts_dict: one Boolean variable per (employee id, day, shift)
Keys(emps) == {<<emps[i].id, day, s>> : i \in 1..Len(emps), day \in DaySet, s \in ShiftSet}

\* a coverage rule without any manager minimum
NoManagerMinimum == Cardinality({})

MinManagers == 2
PeakStaff == 4
OffPeakStaff == 2
WindowDays == 6
MaxWorkedInWindow == 5

\* the headcount minimum without the weekend increment
min_staff_weekdays_only(day, shift_name) ==
  IF shift_name \in {"morning", "afternoon"} THEN PeakStaff ELSE OffPeakStaff

min_staff(day, shift_name) ==
  (IF shift_name \in {"morning", "afternoon"} THEN PeakStaff ELSE OffPeakStaff)
    + (IF day \in {"Saturday", "Sunday"} THEN 1 ELSE 0)

AvailabilityOK(emps, x) ==
  \A i \in 1..Len(emps), day \in DaySet, s \in ShiftSet :
     ~Available(emps[i], day, s) => x[<<emps[i].id, day, s>>] = 0

CoverageOK(emps, x) ==
  \A day \in DaySet, s \in ShiftSet :
     /\ SumSeq([i \in 1..Len(emps) |->
                  IF emps[i].role = "manager" THEN x[<<emps[i].id, day, s>>] ELSE 0])
          >= MinManagers
     /\ SumSeq([i \in 1..Len(emps) |-> x[<<emps[i].id, day, s>>]]) >= min_staff(day, s)

total_minutes(emp, x) ==
  SumSeq([d \in 1..Len(days) |->
            SumSeq([k \in 1..Len(ShiftNames) |->
                      x[<<emp.id, days[d], ShiftNames[k]>>] * shift_durations[ShiftNames[k]]])])

\* a lower bound that spares the workers without any availability
min_minutes_when_available(emp) ==
  IF \E day \in DaySet : emp.availability[day] # None THEN emp.min_hours * 60 ELSE 0

min_minutes(emp) == emp.min_hours * 60

\* the upper bound left in hours while the total is in minutes, times 100
max_minutes_percent(emp) == emp.max_hours * 100

max_minutes(emp) == emp.max_hours * 60

HoursOK(emps, x) ==
  \A i \in 1..Len(emps) :
     /\ total_minutes(emps[i], x) >= min_minutes(emps[i])
     /\ total_minutes(emps[i], x) <= max_minutes(emps[i])

\* AddMaxEquality(day_worked, worked): the OR of the day's shift variables
day_worked(emp, x, day) == MaxOf({x[<<emp.id, day, s>>] : s \in ShiftSet})

ConsecutiveOK(emps, x) ==
  \A i \in 1..Len(emps) :
     \A start_day \in 0..(Len(days) - 5 - 1) :
        SumSeq([k \in 1..WindowDays |-> day_worked(emps[i], x, days[start_day + k])])
          <= MaxWorkedInWindow

Feasible(emps, x) ==
  /\ AvailabilityOK(emps, x)
  /\ CoverageOK(emps, x)
  /\ HoursOK(emps, x)
  /\ ConsecutiveOK(emps, x)

\* an objective that counts every assigned slot, preferred or not
preference_score_all_slots(emps, x) ==
  SumSeq([i \in 1..Len(emps) |->
            SumSeq([d \in 1..Len(days) |->
                      SumSeq([k \in 1..Len(ShiftNames) |->
                                x[<<emps[i].id, days[d], ShiftNames[k]>>]])])])

preference_score(emps, x) ==
  SumSeq([i \in 1..Len(emps) |->
            SumSeq([d \in 1..Len(days) |->
                      SumSeq([k \in 1..Len(ShiftNames) |->
                                IF ShiftNames[k] \in emps[i].preferred_shifts
                                  THEN x[<<emps[i].id, days[d], ShiftNames[k]>>]
                                  ELSE 0])])])


(***************************************************************************)
(* Solve.  Solutions(emps) is the set of all assignments of the variables  *)
(* that satisfy the constraint system.  It is enumerated worker by worker: *)
(* Candidates keeps, for each worker, only the sets of available slots     *)
(* whose minutes lie within the worker's bounds and that contain every     *)
(* slot coverage cannot do without; nothing that satisfies Feasible is     *)
(* left out, and Feasible decides.                                         *)
(***************************************************************************)
SlotSeq ==
  [n \in 1..(Len(days) * Len(ShiftNames)) |->
     <<days[((n - 1) \div Len(ShiftNames)) + 1], ShiftNames[((n - 1) % Len(ShiftNames)) + 1]>>]

SlotSet == {SlotSeq[n] : n \in 1..Len(SlotSeq)}

RECURSIVE SlotMinutes(_)
SlotMinutes(q) == IF q = <<>> THEN 0 ELSE shift_durations[Head(q)[2]] + SlotMinutes(Tail(q))

\* the subsets of the slots of q whose minutes lie in lo..hi
RECURSIVE SlotSubsets(_, _, _)
SlotSubsets(q, lo, hi) ==
  IF hi < 0 \/ SlotMinutes(q) < lo THEN {}
  ELSE IF q = <<>> THEN {{}}
  ELSE LET d == shift_durations[Head(q)[2]] IN
         SlotSubsets(Tail(q), lo, hi)
           \cup {S \cup {Head(q)} : S \in SlotSubsets(Tail(q), lo - d, hi - d)}

AvailableAt(emps, sl) == {i \in 1..Len(emps) : Available(emps[i], sl[1], sl[2])}

Coverable(emps) ==
  \A sl \in SlotSet :
     /\ Cardinality(AvailableAt(emps, sl)) >= min_staff(sl[1], sl[2])
     /\ Cardinality({i \in AvailableAt(emps, sl) : emps[i].role = "manager"}) >= MinManagers

SlotsWorkedOK(S) ==
  \A start_day \in 0..(Len(days) - 5 - 1) :
     Cardinality({k \in 1..WindowDays : \E s \in ShiftSet : <<days[start_day + k], s>> \in S})
       <= MaxWorkedInWindow

WorkerCandidates(emps, i) ==
  LET avail == {sl \in SlotSet : i \in AvailableAt(emps, sl)}
      must == {sl \in avail :
                 \/ Cardinality(AvailableAt(emps, sl)) <= min_staff(sl[1], sl[2])
                 \/ /\ emps[i].role = "manager"
                    /\ Cardinality({j \in AvailableAt(emps, sl) : emps[j].role = "manager"})
                         <= MinManagers}
      IsMust(sl) == sl \in must
      IsFree(sl) == sl \in avail \ must
      mustMinutes == SlotMinutes(SelectSeq(SlotSeq, IsMust))
  IN {C \in {must \cup E : E \in SlotSubsets(SelectSeq(SlotSeq, IsFree),
                                             min_minutes(emps[i]) - mustMinutes,
                                             max_minutes(emps[i]) - mustMinutes)} :
        SlotsWorkedOK(C)}

RECURSIVE Rosters(_, _)
Rosters(emps, n) ==
  IF n = 0 THEN {<<>>}
  ELSE {Append(r, c) : r \in Rosters(emps, n - 1), c \in WorkerCandidates(emps, n)}

ValuesOf(emps, r) ==
  [key \in Keys(emps) |->
     IF \E i \in 1..Len(emps) : emps[i].id = key[1] /\ <<key[2], key[3]>> \in r[i]
       THEN 1 ELSE 0]

Candidates(emps) ==
  IF Coverable(emps) THEN {ValuesOf(emps, r) : r \in Rosters(emps, Len(emps))} ELSE {}

Solutions(emps) == {x \in Candidates(emps) : Feasible(emps, x)}

Optimal(emps, sols) ==
  IF sols = {} THEN {}
  ELSE LET best == MaxOf({preference_score(emps, y) : y \in sols})
       IN {x \in sols : preference_score(emps, x) = best}


(***************************************************************************)
(* The decoded result of ortools_scheduler.                                *)
(***************************************************************************)
RECURSIVE RosterOf(_, _, _, _)
RosterOf(emps, x, day, s) ==
  IF emps = <<>> THEN <<>>
  ELSE (IF x[<<Head(emps).id, day, s>>] = 1 THEN <<Head(emps).id>> ELSE <<>>)
         \o RosterOf(Tail(emps), x, day, s)

\* hours added up without the division of line 224
HoursOfInMinutes(emp, x) ==
  SumSeq([n \in 1..Len(SlotSeq) |->
            IF x[<<emp.id, SlotSeq[n][1], SlotSeq[n][2]>>] = 1
              THEN shift_durations[SlotSeq[n][2]] ELSE 0])

HoursOf(emp, x) ==
  SumSeq([n \in 1..Len(SlotSeq) |->
            IF x[<<emp.id, SlotSeq[n][1], SlotSeq[n][2]>>] = 1
              THEN shift_durations[SlotSeq[n][2]] \div 60 ELSE 0])

Decode(emps, x, status) ==
  [status |-> status,
   schedule |-> [day \in DaySet |-> [s \in ShiftSet |-> RosterOf(emps, x, day, s)]],
   employee_hours |-> [id \in {emps[i].id : i \in 1..Len(emps)} |->
                         HoursOf(CHOOSE e \in {emps[i] : i \in 1..Len(emps)} : e.id = id, x)],
   preference_score |-> preference_score(emps, x)]

NoSolution == [status |-> "infeasible", message |-> "No solution found"]

\* what one call of solver.Solve(model) may answer: <<status, values>>
SolveOutcomes(emps) ==
  LET sols == Solutions(emps) IN
    {<<"OPTIMAL", x>> : x \in Optimal(emps, sols)}
      \cup {<<"FEASIBLE", x>> : x \in sols}
      \cup (IF sols = {} THEN {<<"INFEASIBLE", None>>} ELSE {})
      \cup {<<"UNKNOWN", None>>}

\* the dictionary returned for one answer of the solver
ResultOf(emps, outcome) ==
  IF outcome[1] = "OPTIMAL" \/ outcome[1] = "FEASIBLE"
    THEN Decode(emps, outcome[2], IF outcome[1] = "OPTIMAL" THEN "optimal" ELSE "feasible")
    ELSE NoSolution


(***************************************************************************)
(* Employee tables the calls are explored on.                              *)
(***************************************************************************)
T0800 == <<"0", "8", ":", "0", "0">>
T0900 == <<"0", "9", ":", "0", "0">>
T1400 == <<"1", "4", ":", "0", "0">>
T2100 == <<"2", "1", ":", "0", "0">>
T2200 == <<"2", "2", ":", "0", "0">>
T2500 == <<"2", "5", ":", "0", "0">>

Emp(id, role, mn, mx, av, pf) ==
  [id |-> id, role |-> role, min_hours |-> mn, max_hours |-> mx,
   availability |-> av, preferred_shifts |-> pf]

OpenOn(openDays, interval) == [day \in DaySet |-> IF day \in openDays THEN interval ELSE None]

AllDay == <<T0900, T2200>>

\* six workers, each off one day, each needed on every slot they are open for
FullWeekHours == 6 * (5 + 5 + 3)

Core ==
  <<Emp("M1", "manager", FullWeekHours, FullWeekHours, OpenOn(DaySet \ {"Tuesday"}, AllDay), {"morning"}),
    Emp("M2", "manager", FullWeekHours, FullWeekHours, OpenOn(DaySet \ {"Wednesday"}, AllDay), {"evening"}),
    Emp("M3", "manager", FullWeekHours, FullWeekHours, OpenOn(DaySet \ {"Thursday"}, AllDay), {}),
    Emp("S1", "staff", FullWeekHours, FullWeekHours, OpenOn(DaySet \ {"Tuesday"}, AllDay), {"morning", "afternoon"}),
    Emp("S2", "staff", FullWeekHours, FullWeekHours, OpenOn(DaySet \ {"Wednesday"}, AllDay), {}),
    Emp("S3", "staff", FullWeekHours, FullWeekHours, OpenOn(DaySet \ {"Thursday"}, AllDay), {"afternoon"})>>

\* the hour bounds the seventh worker is drawn with
MaxHoursBound == 8

ExtraWorkers ==
  {Emp("X1", "staff", mn, mx, OpenOn({"Monday"}, AllDay), pf) :
      mn \in {0, 5}, mx \in {0, 5, MaxHoursBound}, pf \in {{}, {"morning"}, {"evening"}}}
    \cup {Emp("X1", "staff", mn, 40, OpenOn(DaySet, <<T0900, T1400>>), {"morning"}) : mn \in {0, 30}}
    \cup {Emp("X1", "staff", 0, mx, [day \in DaySet |-> IF day \in {"Saturday", "Sunday"}
                                                          THEN <<T0800, T2200>> ELSE <<T0900, T2100>>],
              {"evening"}) : mx \in {5, MaxHoursBound}}
    \cup {Emp("X1", "staff", 5, MaxHoursBound, OpenOn({}, AllDay), {"morning"}),
          Emp("X1", "staff", 30, 40, OpenOn(DaySet \ {"Saturday", "Sunday"}, <<T0900, T1400>>), {}),
          Emp("X1", "staff", 0, MaxHoursBound, OpenOn({"Monday"}, <<T2200, T0900>>), {}),
          Emp("X1", "staff", 0, MaxHoursBound, OpenOn({"Monday"}, <<T1400, T2200>>), {"morning"}),
          Emp("X1", "staff", 0, MaxHoursBound, OpenOn({"Monday"}, <<T2500, T2200>>), {}),
          Emp("X1", "manager", 0, MaxHoursBound, OpenOn({"Tuesday"}, AllDay), {"morning"})}

\* a manager of the core open all week, or bounded below the hours coverage needs
CoreVariants ==
  {Core,
   [Core EXCEPT ![1] = Emp("M1", "manager", FullWeekHours, 91, OpenOn(DaySet, AllDay), {"morning"})],
   [Core EXCEPT ![1] = Emp("M1", "manager", 38, 40, OpenOn(DaySet \ {"Tuesday"}, AllDay), {"morning"}),
                ![6] = Emp("S3", "staff", 65, 65, OpenOn(DaySet \ {"Thursday", "Sunday"}, AllDay), {"afternoon"})],
   [Core EXCEPT ![6] = Emp("S3", "staff", 75, FullWeekHours, OpenOn(DaySet \ {"Thursday"}, AllDay), {"afternoon"})],
   SubSeq(Core, 1, 2) \o SubSeq(Core, 4, 6)}

(***************************************************************************)
(* generate_employee_data: five full-timers, the first two of them         *)
(* managers, then ten part-timers.  open[i] are the days the random draws  *)
(* of generate_availability left open for employee i, prefs[i] the sample  *)
(* generate_preferred_shifts drew.                                         *)
(***************************************************************************)
FullTimers == 5
PartTimers == 10

generate_availability(openDays) ==
  [day \in DaySet |->
     IF day \in openDays
       THEN (IF day \in {"Saturday", "Sunday"} THEN <<T0800, T2200>> ELSE <<T0900, T2100>>)
       ELSE None]

generate_employee_data(open, prefs) ==
  [i \in 1..(FullTimers + PartTimers) |->
     IF i <= FullTimers
       THEN Emp("FT" \o ToString(i), IF i - 1 < 2 THEN "manager" ELSE "staff", 38, 40,
                generate_availability(open[i]), prefs[i])
       ELSE Emp("PT" \o ToString(i - FullTimers), "staff", 10, 30,
                generate_availability(open[i]), prefs[i])]

GeneratedTables ==
  {generate_employee_data([i \in 1..(FullTimers + PartTimers) |-> open],
                          [i \in 1..(FullTimers + PartTimers) |-> pf]) :
      open \in {DaySet, DaySet \ {"Sunday"}}, pf \in {{"morning"}, {"afternoon", "evening"}}}

EmployeeTables ==
  CoreVariants \cup {Append(Core, xw) : xw \in ExtraWorkers} \cup GeneratedTables

Requirements(L) ==
  [min_managers |-> 2, min_staff_peak |-> 4, min_staff_offpeak |-> 2,
   max_consecutive_days |-> L,
   store_hours |-> [weekdays |-> <<T0900, T2100>>, weekends |-> <<T0800, T2200>>]]

RequirementChoices == {Requirements(L) : L \in {4, 5}}

(***************************************************************************)
(* ortools_scheduler(employees, requirements), called on its own.          *)
(***************************************************************************)
InitSolver ==
  /\ employees \in EmployeeTables
  /\ requirements \in RequirementChoices
  /\ pc = "call"
  /\ solver_status = "NOT_SOLVED"
  /\ solver_values = None
  /\ ortools_result = None
  /\ reviewed = None
  /\ check = "none"
  /\ agent_returned = 0
  /\ agent_raised = 0
  /\ solver_calls = 0
  /\ result = None
  /\ PocIdle
  /\ SimpleIdle

OrtoolsReturns ==
  /\ pc = "call"
  /\ ~BuildRaises(employees)
  /\ \E outcome \in SolveOutcomes(employees) :
        /\ solver_status' = outcome[1]
        /\ solver_values' = outcome[2]
        /\ ortools_result' = ResultOf(employees, outcome)
  /\ pc' = "returned"
  /\ UNCHANGED <<simpleVars, employees, requirements, runVars, pocVars>>

OrtoolsRaises ==
  /\ pc = "call"
  /\ BuildRaises(employees)
  /\ pc' = "raised"
  /\ ortools_result' = [raised |-> "ValueError"]
  /\ UNCHANGED <<simpleVars, employees, requirements, solver_status, solver_values, runVars, pocVars>>

NextSolver == OrtoolsReturns \/ OrtoolsRaises

SpecSolver == InitSolver /\ [][NextSolver]_vars


(***************************************************************************)
(* generate_optimized_schedule(task).  Every initiate_chat is a call to a  *)
(* language-model endpoint: it returns a ChatResult or raises.  A summary  *)
(* is a sequence of words.                                                 *)
(***************************************************************************)
Contains(summary, marker) == \E i \in 1..Len(summary) : summary[i] = marker

\* the three-character marker of line 490 (the bytes of a cross mark read as
\* Mac Roman), written in ASCII here
CrossMark == "<cross-mark>"

Summaries ==
  {<<"Weekly", "schedule", "looks", "balanced">>,
   <<"MUST FIX", "manager", "coverage">>,
   <<CrossMark, "overtime">>}

\* two managers bounded as generate_employee_data bounds them, open three
\* days, and six staff who cover every headcount minimum by themselves
ShortWeekManagers ==
  <<Emp("FT1", "manager", 38, 40, OpenOn({"Monday", "Tuesday", "Wednesday"}, AllDay), {"morning"}),
    Emp("FT2", "manager", 38, 40, OpenOn({"Friday", "Saturday", "Sunday"}, AllDay), {"evening"})>>
    \o [i \in 1..Len(Core) |-> [Core[i] EXCEPT !.role = "staff"]]

\* the employee tables of a run
RunTables ==
  {Core,
   ShortWeekManagers,
   Append(Core, Emp("X1", "staff", 0, 5, OpenOn({"Monday"}, AllDay), {"morning"})),
   SubSeq(Core, 1, 2) \o SubSeq(Core, 4, 6),
   Append(Core, Emp("X1", "staff", 0, MaxHoursBound, OpenOn({"Monday"}, <<T2500, T2200>>), {}))}
    \cup GeneratedTables

Placeholder == [method |-> "failed", error |-> "Initialization failed"]

Analysis == [compliance |-> None, coverage |-> None, budget |-> None, fairness |-> None]

\* the text built from a solver result: a line per day, per roster and per worker
RECURSIVE DayLines(_, _)
DayLines(res, d) ==
  IF d > Len(days) THEN <<>>
  ELSE <<<<days[d]>>>>
         \o [k \in 1..Len(ShiftNames) |-> <<ShiftNames[k], res.schedule[days[d]][ShiftNames[k]]>>]
         \o DayLines(res, d + 1)

full_summary(emps, res) ==
  <<<<"=== OR-TOOLS GENERATED SCHEDULE ===">>>>
    \o DayLines(res, 1)
    \o <<<<"=== EMPLOYEE HOURS ===">>>>
    \o [i \in 1..Len(emps) |-> <<emps[i].id, res.employee_hours[emps[i].id], "hours">>]

Init ==
  /\ employees \in RunTables
  /\ requirements = Requirements(5)
  /\ pc = "draft"
  /\ solver_status = "NOT_SOLVED"
  /\ solver_values = None
  /\ ortools_result = None
  /\ reviewed = None
  /\ agent_returned = 0
  /\ agent_raised = 0
  /\ solver_calls = 0
  /\ result = Placeholder
  /\ check = "none"
  /\ PocIdle
  /\ SimpleIdle

\* scheduler.initiate_chat(personalization_agent, task) returns
DraftReturns ==
  /\ pc = "draft"
  /\ pc' = "review"
  /\ agent_returned' = agent_returned + 1
  /\ UNCHANGED <<simpleVars, employees, requirements, solver_status, solver_values, ortools_result,
                 reviewed, check, agent_raised, solver_calls, result, pocVars>>

\* scheduler.initiate_chat(feedback_prioritizer, draft.summary) returns;
\* a summary holding a marker raises ValueError
ReviewReturns ==
  /\ pc = "review"
  /\ \E summary \in Summaries :
        /\ reviewed' = summary
        /\ IF Contains(summary, CrossMark) \/ Contains(summary, "MUST FIX")
             THEN pc' = "except" /\ check' = "rejected"
             ELSE pc' = "visual" /\ check' = "passed"
  /\ agent_returned' = agent_returned + 1
  /\ UNCHANGED <<simpleVars, employees, requirements, solver_status, solver_values, ortools_result,
                 agent_raised, solver_calls, result, pocVars>>

\* visual_scheduler.initiate_chat(scheduler, reviewed.summary) returns and the
\* agent-based result is built
VisualReturns ==
  /\ pc = "visual"
  /\ pc' = "done"
  /\ agent_returned' = agent_returned + 1
  /\ result' = [method |-> "agent-based", schedule |-> reviewed,
                visual |-> <<"chart">>, analysis |-> Analysis]
  /\ UNCHANGED <<simpleVars, employees, requirements, solver_status, solver_values, ortools_result,
                 reviewed, check, agent_raised, solver_calls, pocVars>>

\* any of the three chats of the agent path raises
AgentPathRaises ==
  /\ pc \in {"draft", "review", "visual"}
  /\ pc' = "except"
  /\ agent_raised' = agent_raised + 1
  /\ UNCHANGED <<simpleVars, employees, requirements, solver_status, solver_values, ortools_result,
                 reviewed, check, agent_returned, solver_calls, result, pocVars>>

BothFailed == [method |-> "failed", error |-> "Both methods failed"]

NoFeasible(res) ==
  [method |-> "failed", error |-> "OR-Tools could not find a feasible solution",
   ortools_result |-> res]

\* what solver.Solve may answer on each table of a run
RunOutcomes == [t \in RunTables |-> IF BuildRaises(t) THEN {} ELSE SolveOutcomes(t)]

\* the handler of the agent path calls ortools_scheduler
FallbackSolves ==
  /\ pc = "except"
  /\ solver_calls' = solver_calls + 1
  /\ IF BuildRaises(employees)
       THEN /\ pc' = "done"
            /\ result' = BothFailed
            /\ UNCHANGED <<solver_status, solver_values, ortools_result>>
       ELSE \E outcome \in RunOutcomes[employees] :
              /\ solver_status' = outcome[1]
              /\ solver_values' = outcome[2]
              /\ ortools_result' = ResultOf(employees, outcome)
              /\ IF ortools_result'.status \in {"optimal", "feasible"}
                   THEN pc' = "review_solver" /\ UNCHANGED result
                   ELSE pc' = "done" /\ result' = NoFeasible(ortools_result')
  /\ UNCHANGED <<simpleVars, employees, requirements, reviewed, check, agent_returned, agent_raised, pocVars>>

\* scheduler.initiate_chat(feedback_prioritizer, full_summary) returns; its
\* summary is not looked at
SolverReviewReturns ==
  /\ pc = "review_solver"
  /\ \E summary \in Summaries : reviewed' = summary
  /\ pc' = "visual_solver"
  /\ agent_returned' = agent_returned + 1
  /\ UNCHANGED <<simpleVars, employees, requirements, solver_status, solver_values, ortools_result,
                 check, agent_raised, solver_calls, result, pocVars>>

\* visual_scheduler.initiate_chat(scheduler, full_summary) returns and the
\* or-tools result is built
SolverVisualReturns ==
  /\ pc = "visual_solver"
  /\ pc' = "done"
  /\ agent_returned' = agent_returned + 1
  /\ result' = [method |-> "or-tools", schedule |-> full_summary(employees, ortools_result),
                visual |-> <<"chart">>, analysis |-> Analysis, ortools_stats |-> None]
  /\ UNCHANGED <<simpleVars, employees, requirements, solver_status, solver_values, ortools_result,
                 reviewed, check, agent_raised, solver_calls, pocVars>>

\* the inner handler leaving the result as it was
SolverPathRaisesResultKept ==
  /\ pc \in {"review_solver", "visual_solver"}
  /\ pc' = "done"
  /\ agent_raised' = agent_raised + 1
  /\ UNCHANGED <<simpleVars, employees, requirements, solver_status, solver_values, ortools_result,
                 reviewed, check, agent_returned, solver_calls, result, pocVars>>

\* a chat of the solver path raises: the inner handler
SolverPathRaises ==
  /\ pc \in {"review_solver", "visual_solver"}
  /\ pc' = "done"
  /\ agent_raised' = agent_raised + 1
  /\ result' = BothFailed
  /\ UNCHANGED <<simpleVars, employees, requirements, solver_status, solver_values, ortools_result,
                 reviewed, check, agent_returned, solver_calls, pocVars>>

Next ==
  \/ DraftReturns
  \/ ReviewReturns
  \/ VisualReturns
  \/ AgentPathRaises
  \/ FallbackSolves
  \/ SolverReviewReturns
  \/ SolverVisualReturns
  \/ SolverPathRaises

Spec == Init /\ [][Next]_vars


(***************************************************************************)
(* labour_scheduler_poc.py.  A message is a sequence of tokens: a number,  *)
(* a quoted string, a punctuation mark of JSON, or a bare word.            *)
(***************************************************************************)
Num(n) == [t |-> "num", v |-> ToString(n), n |-> n]
Str(text) == [t |-> "str", v |-> text, n |-> 0]
Mark(c) == [t |-> "punct", v |-> c, n |-> 0]
Word(text) == [t |-> "word", v |-> text, n |-> 0]

\* JSON values
JNum(n) == [kind |-> "num", n |-> n, s |-> "", items |-> <<>>]
JStr(text) == [kind |-> "str", n |-> 0, s |-> text, items |-> <<>>]
JLit(text) == [kind |-> "lit", n |-> 0, s |-> text, items |-> <<>>]
JArr(items) == [kind |-> "arr", n |-> 0, s |-> "", items |-> items]
JObj(pairs) == [kind |-> "obj", n |-> 0, s |-> "", items |-> pairs]

ParseFail == [ok |-> FALSE, val |-> JLit("null"), next |-> 0]
Parsed(val, next) == [ok |-> TRUE, val |-> val, next |-> next]

IsMark(toks, i, c) == i <= Len(toks) /\ toks[i].t = "punct" /\ toks[i].v = c

\* a dict keeps the place of a key's first insertion and the last value
PutPair(pairs, key, val) ==
  IF \E k \in 1..Len(pairs) : pairs[k][1] = key
    THEN [k \in 1..Len(pairs) |-> IF pairs[k][1] = key THEN <<key, val>> ELSE pairs[k]]
    ELSE Append(pairs, <<key, val>>)

RECURSIVE ParseValue(_, _), ParseElems(_, _, _), ParseMembers(_, _, _)
ParseValue(toks, i) ==
  IF i > Len(toks) THEN ParseFail
  ELSE IF toks[i].t = "num" THEN Parsed(JNum(toks[i].n), i + 1)
  ELSE IF toks[i].t = "str" THEN Parsed(JStr(toks[i].v), i + 1)
  ELSE IF toks[i].t = "word" /\ toks[i].v \in {"true", "false", "null"}
    THEN Parsed(JLit(toks[i].v), i + 1)
  ELSE IF IsMark(toks, i, "[")
    THEN (IF IsMark(toks, i + 1, "]") THEN Parsed(JArr(<<>>), i + 2)
          ELSE ParseElems(toks, i + 1, <<>>))
  ELSE IF IsMark(toks, i, "{")
    THEN (IF IsMark(toks, i + 1, "}") THEN Parsed(JObj(<<>>), i + 2)
          ELSE ParseMembers(toks, i + 1, <<>>))
  ELSE ParseFail

ParseElems(toks, i, acc) ==
  LET item == ParseValue(toks, i) IN
    IF ~item.ok THEN ParseFail
    ELSE IF IsMark(toks, item.next, ",")
      THEN ParseElems(toks, item.next + 1, Append(acc, item.val))
    ELSE IF IsMark(toks, item.next, "]")
      THEN Parsed(JArr(Append(acc, item.val)), item.next + 1)
    ELSE ParseFail

ParseMembers(toks, i, acc) ==
  IF ~(i <= Len(toks) /\ toks[i].t = "str" /\ IsMark(toks, i + 1, ":")) THEN ParseFail
  ELSE LET item == ParseValue(toks, i + 2) IN
    IF ~item.ok THEN ParseFail
    ELSE IF IsMark(toks, item.next, ",")
      THEN ParseMembers(toks, item.next + 1, PutPair(acc, toks[i].v, item.val))
    ELSE IF IsMark(toks, item.next, "}")
      THEN Parsed(JObj(PutPair(acc, toks[i].v, item.val)), item.next + 1)
    ELSE ParseFail

\* json.loads: the whole text must be one value, else JSONDecodeError
json_loads(toks) ==
  LET r == ParseValue(toks, 1) IN
    IF r.ok /\ r.next = Len(toks) + 1 THEN r ELSE ParseFail

\* json.dump: the text of a value
RECURSIVE json_dump(_), DumpItems(_, _)
json_dump(val) ==
  CASE val.kind = "num" -> <<Num(val.n)>>
    [] val.kind = "str" -> <<Str(val.s)>>
    [] val.kind = "lit" -> <<Word(val.s)>>
    [] val.kind = "arr" -> <<Mark("[")>> \o DumpItems(val.items, FALSE) \o <<Mark("]")>>
    [] val.kind = "obj" -> <<Mark("{")>> \o DumpItems(val.items, TRUE) \o <<Mark("}")>>

DumpItems(items, keyed) ==
  IF items = <<>> THEN <<>>
  ELSE (IF keyed THEN <<Str(Head(items)[1]), Mark(":")>> \o json_dump(Head(items)[2])
                 ELSE json_dump(Head(items)))
         \o (IF Len(items) > 1 THEN <<Mark(",")>> ELSE <<>>)
         \o DumpItems(Tail(items), keyed)

\* "FALLBACK" in final_message
HasFallbackMarker(toks) == \E i \in 1..Len(toks) : toks[i].v = "FALLBACK"

PocShifts == <<"Morning", "Evening", "Night">>

min_coverage ==
  [sh \in {"Morning", "Evening", "Night"} |->
     CASE sh = "Morning" -> 10 [] sh = "Evening" -> 8 [] sh = "Night" -> 5]

\* the rows of employees.csv as data_gen.py writes them
MaxRows == 2

Row(i, kind) ==
  [id |-> "EMP_00" \o ToString(i - 1), role |-> kind[1], wage |-> kind[2],
   max_hours |-> kind[3], prefers_evenings |-> kind[4]]

RowKinds ==
  {<<"Engineer", 15, 20, FALSE>>, <<"Manager", 50, 40, TRUE>>, <<"Admin", 40, 30, FALSE>>}

PocTables ==
  UNION {{[i \in 1..n |-> Row(i, kinds[i])] : kinds \in [1..n -> RowKinds]} : n \in 1..MaxRows}

Pair(id, hours) == <<Str(id), Mark(":"), Num(hours)>>

Messages ==
  {<<Word("FALLBACK")>>,
   <<Word("Consensus"), Word("failed"), Word("FALLBACK")>>,
   <<Word("Here"), Word("is"), Word("the"), Word("schedule")>>,
   <<>>,
   <<Mark("{")>> \o Pair("EMP_000", 20) \o <<Mark("}")>>,
   <<Mark("{")>> \o Pair("EMP_000", 10) \o <<Mark(",")>> \o Pair("EMP_001", 5) \o <<Mark("}")>>,
   <<Mark("{")>> \o Pair("EMP_000", 999) \o <<Mark("}")>>,
   <<Mark("{")>> \o Pair("EMP_000", 2) \o <<Mark("}")>>,
   <<Mark("{")>> \o Pair("EMP_000", 20) \o <<Mark(","), Mark("}")>>,
   <<Mark("{")>> \o Pair("EMP_000", 20) \o <<Mark("}"), Word("TERMINATE")>>,
   <<Mark("{")>> \o Pair("FALLBACK", 20) \o <<Mark("}")>>,
   <<Mark("{"), Str("valid"), Mark(":"), Word("true"), Mark(","),
     Str("errors"), Mark(":"), Mark("["), Mark("]"), Mark("}")>>,
   <<Mark("["), Num(20), Mark(","), Num(30), Mark("]")>>,
   <<Num(42)>>,
   <<Str("TERMINATE")>>}

\* ortools_fallback's model: an hours variable in 0..max_hours per row and, for
\* every shift, the sum of all the variables >= min_coverage of the shift
FallbackSatisfiable(emps) ==
  \A k \in 1..Len(PocShifts) :
     SumSeq([i \in 1..Len(emps) |-> emps[i].max_hours]) >= min_coverage[PocShifts[k]]

FallbackStatuses(emps) ==
  (IF FallbackSatisfiable(emps) THEN {"OPTIMAL", "FEASIBLE"} ELSE {"INFEASIBLE"})
    \cup {"UNKNOWN"}

InitPoc ==
  /\ employees \in PocTables
  /\ requirements = None
  /\ pc = "chat"
  /\ solver_status = "NOT_SOLVED"
  /\ solver_values = None
  /\ ortools_result = None
  /\ reviewed = None
  /\ check = "none"
  /\ agent_returned = 0
  /\ agent_raised = 0
  /\ solver_calls = 0
  /\ result = None
  /\ PocIdle
  /\ SimpleIdle

\* user_proxy.initiate_chat(manager, ...) returns; the last message is read
ChatEnds ==
  /\ pc = "chat"
  /\ final_message' \in Messages
  /\ pc' = "deliver"
  /\ agent_returned' = agent_returned + 1
  /\ UNCHANGED <<simpleVars, solverData, reviewed, check, agent_raised, solver_calls, result,
                 schedule, schedule_file, fallback_calls>>

\* user_proxy.initiate_chat(manager, ...) raises: run_scheduler raises
ChatRaises ==
  /\ pc = "chat"
  /\ pc' = "raised"
  /\ agent_raised' = agent_raised + 1
  /\ UNCHANGED <<simpleVars, solverData, reviewed, check, agent_returned, solver_calls, result,
                 pocVars>>

UsesFallback(toks) == HasFallbackMarker(toks) \/ ~json_loads(toks).ok

\* the message has no marker and json.loads returns: its value is written
WriteAgentSchedule ==
  /\ pc = "deliver"
  /\ ~UsesFallback(final_message)
  /\ schedule' = json_loads(final_message).val
  /\ schedule_file' = json_dump(schedule')
  /\ pc' = "written"
  /\ UNCHANGED <<simpleVars, solverData, runVars, final_message, fallback_calls>>

\* ortools_fallback() is called: Solve, then the dictionary of the return
\* statement, whose loop variable is a (index, row) pair and not a row
RunFallback ==
  /\ pc = "deliver"
  /\ UsesFallback(final_message)
  /\ fallback_calls' = fallback_calls + 1
  /\ solver_status' \in FallbackStatuses(employees)
  /\ IF Len(employees) > 0
       THEN pc' = "raised" /\ UNCHANGED <<schedule, schedule_file>>
       ELSE /\ schedule' = JObj(<<>>)
            /\ schedule_file' = json_dump(schedule')
            /\ pc' = "written"
  /\ UNCHANGED <<simpleVars, employees, requirements, solver_values, ortools_result, runVars, final_message>>

NextPoc == ChatEnds \/ ChatRaises \/ WriteAgentSchedule \/ RunFallback

SpecPoc == InitPoc /\ [][NextPoc]_vars

(***************************************************************************)
(* Properties of ortools_scheduler, checked under SpecSolver.              *)
(***************************************************************************)
Solved == pc = "returned" /\ ortools_result.status \in {"optimal", "feasible"}

InRoster(id, roster) == \E k \in 1..Len(roster) : roster[k] = id

Seconds(t) == (t[1] * 60 + t[2]) * 60 + t[3]

NotAfter(a, b) == Seconds(a) < Seconds(b) \/ (Seconds(a) = Seconds(b) /\ a[4] <= b[4])

Workers == {employees[i] : i \in 1..Len(employees)}

\* C1: in a returned schedule a worker is in the roster of a (day, shift) only
\* if the worker's availability for the day is not None and its window holds
\* the whole shift: window start <= shift start and window end >= shift end.
C1_RosterWithinAvailability ==
  Solved =>
    \A w \in Workers, day \in DaySet, s \in ShiftSet :
       InRoster(w.id, ortools_result.schedule[day][s]) =>
         /\ w.availability[day] # None
         /\ NotAfter(ParseTime(w.availability[day][1]), shifts[s][1])
         /\ NotAfter(shifts[s][2], ParseTime(w.availability[day][2]))

\* a schedule in which a worker works on a day whose window leaves a shift out
C1_Witness ==
  /\ Solved
  /\ \E w \in Workers, day \in DaySet, s \in ShiftSet, out \in ShiftSet :
        /\ InRoster(w.id, ortools_result.schedule[day][s])
        /\ w.availability[day] # None
        /\ ~NotAfter(shifts[out][2], ParseTime(w.availability[day][2]))

ManagersIn(roster) ==
  Cardinality({k \in 1..Len(roster) :
                 \E w \in Workers : w.id = roster[k] /\ w.role = "manager"})

\* C2: in a returned schedule every (day, shift) has at least 4 workers in the
\* morning and the afternoon and 2 in the evening, one more on Saturday and
\* Sunday, and at least 2 of them are managers.
C2_CoverageMet ==
  Solved =>
    \A day \in DaySet, s \in ShiftSet :
       /\ Len(ortools_result.schedule[day][s])
            >= (IF s = "evening" THEN 2 ELSE 4)
                 + (IF day = "Saturday" \/ day = "Sunday" THEN 1 ELSE 0)
       /\ ManagersIn(ortools_result.schedule[day][s]) >= 2

\* a schedule with a weekend roster of exactly the weekend minimum of 5 and a
\* roster with exactly 2 managers
C2_Witness ==
  /\ Solved
  /\ \E day \in {"Saturday", "Sunday"} : Len(ortools_result.schedule[day]["morning"]) = 5
  /\ \E day \in DaySet, s \in ShiftSet : ManagersIn(ortools_result.schedule[day][s]) = 2

RosterMinutes(w) ==
  SumSeq([n \in 1..Len(SlotSeq) |->
            IF InRoster(w.id, ortools_result.schedule[SlotSeq[n][1]][SlotSeq[n][2]])
              THEN shift_durations[SlotSeq[n][2]] ELSE 0])

\* C3: in a returned schedule the durations of a worker's assigned shifts add
\* up to at least min_hours and at most max_hours of the worker, in minutes.
C3_HoursWithinBounds ==
  Solved =>
    \A w \in Workers :
       /\ RosterMinutes(w) >= w.min_hours * 60
       /\ RosterMinutes(w) <= w.max_hours * 60

\* a worker open for two shifts of a day that together exceed max_hours, and
\* assigned one of them
C3_Witness ==
  /\ Solved
  /\ \E w \in Workers, day \in DaySet, s \in ShiftSet, t \in ShiftSet :
        /\ s # t
        /\ Available(w, day, s) /\ Available(w, day, t)
        /\ shift_durations[s] + shift_durations[t] > w.max_hours * 60
        /\ InRoster(w.id, ortools_result.schedule[day][s])

WorkedDays(w, first, n) ==
  Cardinality({k \in 0..(n - 1) :
                 \E s \in ShiftSet : InRoster(w.id, ortools_result.schedule[days[first + k]][s])})

\* C4: in a returned schedule, with L = requirements['max_consecutive_days'],
\* every window of L + 1 consecutive days of the horizon holds at most L days
\* on which the worker has a shift.
C4_ConfiguredConsecutiveLimit ==
  Solved =>
    LET L == requirements.max_consecutive_days IN
      \A w \in Workers, first \in 1..(Len(days) - L) :
         WorkedDays(w, first, L + 1) <= L


(***************************************************************************)
(* Properties of generate_optimized_schedule, checked under Spec.          *)
(***************************************************************************)
Flagged(summary) == Contains(summary, CrossMark) \/ Contains(summary, "MUST FIX")

\* C5: the proposal is requested and checked first; a proposal that passes
\* the check ends the run as 'agent-based' without any call of
\* ortools_scheduler, which is called only when the check rejected the
\* proposal or no proposal was produced.
C5_SolverOnlyWithoutAcceptedProposal ==
  /\ solver_calls > 0 => check # "passed"
  /\ (pc = "done" /\ check = "passed") => result.method = "agent-based"

C9_ThreeOutcomes ==
  /\ pc = "done" =>
       /\ result.method \in {"agent-based", "or-tools", "failed"}
       /\ result # Placeholder
       /\ result.method = "failed" => solver_calls >= 1
  /\ pc \notin {"done", "except"} =>
       ENABLED (DraftReturns \/ ReviewReturns \/ VisualReturns \/ AgentPathRaises
                  \/ SolverReviewReturns \/ SolverVisualReturns \/ SolverPathRaises)

\* a run in which a chat of the solver path raised after the solver had
\* found a schedule
C9_Witness ==
  /\ pc = "done"
  /\ result.method = "failed"
  /\ solver_status \in {"OPTIMAL", "FEASIBLE"}
  /\ solver_calls = 1


(***************************************************************************)
(* Properties of run_scheduler, checked under SpecPoc.                     *)
(***************************************************************************)
\* a mapping from worker identifier to hours
IsHoursMapping(val, emps) ==
  /\ val.kind = "obj"
  /\ \A k \in 1..Len(val.items) :
        /\ val.items[k][2].kind = "num"
        /\ \E i \in 1..Len(emps) : emps[i].id = val.items[k][1]

\* the hard constraints of the proposer: nobody above max_hours, coverage met
HardConstraintsMet(val, emps) ==
  /\ IsHoursMapping(val, emps)
  /\ \A k \in 1..Len(val.items), i \in 1..Len(emps) :
        emps[i].id = val.items[k][1] =>
          val.items[k][2].n >= 0 /\ val.items[k][2].n <= emps[i].max_hours
  /\ \A sh \in DOMAIN min_coverage :
        SumSeq([k \in 1..Len(val.items) |-> val.items[k][2].n]) >= min_coverage[sh]

Delivered == agent_returned = 1 /\ pc \in {"written", "raised"}

\* C6: a schedule that came from the agents is written to schedule.json only
\* if it meets the hard constraints (no worker above max_hours, coverage
\* minimums met); a proposal that violates one leads to ortools_fallback.
C6_ProposalCheckedBeforeDelivery ==
  /\ (pc = "written" /\ fallback_calls = 0) => HardConstraintsMet(schedule, employees)
  /\ (Delivered /\ json_loads(final_message).ok
        /\ ~HardConstraintsMet(json_loads(final_message).val, employees))
       => fallback_calls = 1

\* C10: a final message that is no schedule (it holds the FALLBACK marker, is
\* not JSON, or is not a mapping from worker identifier to hours) makes
\* run_scheduler call ortools_fallback and write its result, not the message.
C10_UnparsableMeansFallback ==
  (Delivered
     /\ \/ HasFallbackMarker(final_message)
        \/ ~json_loads(final_message).ok
        \/ ~IsHoursMapping(json_loads(final_message).val, employees))
    => /\ fallback_calls = 1
       /\ pc = "written"
       /\ schedule_file # final_message

(***************************************************************************)
(* Solver outcomes of ortools_scheduler, checked under SpecSolver.         *)
(***************************************************************************)
Returned == pc = "returned"

\* C11: ortools_scheduler reports status 'infeasible' only when the solver
\* proved that no assignment satisfies the constraints; a solve that ended
\* without a solution and without a proof (UNKNOWN) is reported neither as
\* 'infeasible' nor as a success.
C11_UnknownReportedSeparately ==
  Returned =>
    /\ ortools_result.status = "infeasible" => solver_status = "INFEASIBLE"
    /\ solver_status = "UNKNOWN" => ortools_result.status \notin {"infeasible", "optimal", "feasible"}

(***************************************************************************)
(* ortools_fallback(), called on its own.  employees.csv is an input file: *)
(* besides the rows data_gen.py writes, the tables hold rows with fewer    *)
(* hours than a coverage minimum, and the table may have no row.           *)
(***************************************************************************)
LowHourKinds == {<<"Engineer", 15, 4, FALSE>>, <<"Admin", 40, 5, TRUE>>}

FallbackTables ==
  UNION {{[i \in 1..n |-> Row(i, kinds[i])] : kinds \in [1..n -> RowKinds \cup LowHourKinds]} :
           n \in 0..MaxRows}

InitFallback ==
  /\ employees \in FallbackTables
  /\ requirements = None
  /\ pc = "fallback"
  /\ solver_status = "NOT_SOLVED"
  /\ solver_values = None
  /\ ortools_result = None
  /\ reviewed = None
  /\ check = "none"
  /\ agent_returned = 0
  /\ agent_raised = 0
  /\ solver_calls = 0
  /\ result = None
  /\ PocIdle
  /\ SimpleIdle

\* lines 103-107 on a table without rows: the dictionary of the return
\* statement is empty, no solver.Value is evaluated, status is not read
FallbackReturns ==
  /\ pc = "fallback"
  /\ Len(employees) = 0
  /\ solver_status' \in FallbackStatuses(employees)
  /\ ortools_result' = JObj(<<>>)
  /\ pc' = "returned"
  /\ fallback_calls' = fallback_calls + 1
  /\ UNCHANGED <<simpleVars, employees, requirements, solver_values, runVars, final_message,
                 schedule, schedule_file>>

\* lines 103-107 on a table with rows: emp of line 106 is an (index, row)
\* pair, so emp["id"] raises TypeError before any solver.Value is evaluated
FallbackRaises ==
  /\ pc = "fallback"
  /\ Len(employees) > 0
  /\ solver_status' \in FallbackStatuses(employees)
  /\ ortools_result' = [raised |-> "TypeError"]
  /\ pc' = "raised"
  /\ fallback_calls' = fallback_calls + 1
  /\ UNCHANGED <<simpleVars, employees, requirements, solver_values, runVars, final_message,
                 schedule, schedule_file>>

NextFallback == FallbackReturns \/ FallbackRaises

SpecFallback == InitFallback /\ [][NextFallback]_vars

(***************************************************************************)
(* Properties of ortools_fallback, checked under SpecFallback.             *)
(***************************************************************************)
FallbackEnded == pc \in {"returned", "raised"} /\ fallback_calls = 1

\* C12: when the sum of max_hours is below a coverage minimum, ortools_fallback
\* ends with an infeasible outcome: it does not return an hours-per-worker
\* mapping, and it does not fail with an error unrelated to feasibility.
C12_InfeasibilityDetected ==
  (FallbackEnded /\ ~FallbackSatisfiable(employees)) =>
     /\ ~(pc = "returned" /\ ortools_result.kind = "obj")
     /\ ~(pc = "raised" /\ ortools_result.raised = "TypeError")

\* C13: for every table with at least one row ortools_fallback returns and
\* does not raise; when the model is satisfiable and solved, what it returns
\* maps every worker identifier of employees to hours within 0..max_hours
\* whose total meets the minimum coverage of every shift.
C13_FallbackReturnsSchedule ==
  (FallbackEnded /\ Len(employees) > 0) =>
     /\ pc = "returned"
     /\ (FallbackSatisfiable(employees) /\ solver_status \in {"OPTIMAL", "FEASIBLE"}) =>
          /\ HardConstraintsMet(ortools_result, employees)
          /\ \A i \in 1..Len(employees) :
                \E k \in 1..Len(ortools_result.items) :
                   ortools_result.items[k][1] = employees[i].id

(***************************************************************************)
(* Progress of generate_optimized_schedule.  The steps the function takes  *)
(* by itself go on: the handler of line 509 runs and calls the solver,     *)
(* whose search over the finitely many assignments ends.  No initiate_chat *)
(* is given a timeout (lines 482-495, 529-535; llm_config of line 15 has   *)
(* none), so nothing in the code makes a chat return or raise.             *)
(***************************************************************************)
SpecLive == Init /\ [][Next]_vars /\ WF_vars(FallbackSolves)

\* C14: every run of generate_optimized_schedule eventually ends with a
\* result, also when a chat with the agents never answers.
C14_RunEventuallyEnds == <>(pc = "done")

(***************************************************************************)
(* Further properties of ortools_scheduler, checked under SpecSolver.      *)
(***************************************************************************)
\* an availability window whose start is not before its end
Unordered(w, day) ==
  /\ w.availability[day] # None
  /\ NotAfter(ParseTime(w.availability[day][2]), ParseTime(w.availability[day][1]))

\* C15: ortools_scheduler does not return (neither a schedule nor status
\* 'infeasible') for an employee table that holds an availability window
\* whose start is not before its end; it fails with an error instead.
C15_MalformedAvailabilityRejected ==
  Returned => \A w \in Workers, day \in DaySet : ~Unordered(w, day)

\* the assigned (worker, day, shift) slots whose shift the worker prefers
PreferredAssigned ==
  {slot \in Workers \X DaySet \X ShiftSet :
     /\ InRoster(slot[1].id, ortools_result.schedule[slot[2]][slot[3]])
     /\ slot[3] \in slot[1].preferred_shifts}

\* C16: with status 'optimal' the returned preference_score is the number of
\* assigned slots whose shift is among the worker's preferred_shifts, and no
\* assignment that satisfies availability, coverage, hour bounds and the
\* consecutive-day limit has more of them.
C16_OptimalPreferenceScore ==
  (Returned /\ ortools_result.status = "optimal") =>
     /\ ortools_result.preference_score = Cardinality(PreferredAssigned)
     /\ \A y \in Solutions(employees) :
           preference_score(employees, y) <= Cardinality(PreferredAssigned)

\* an optimal schedule with preferred slots assigned, on a table that also
\* has a satisfying assignment with fewer of them and a worker assigned a
\* shift that is not preferred
C16_Witness ==
  /\ Returned
  /\ ortools_result.status = "optimal"
  /\ ortools_result.preference_score > 0
  /\ \E y \in Solutions(employees) :
        preference_score(employees, y) < ortools_result.preference_score
  /\ \E w \in Workers, day \in DaySet, s \in ShiftSet :
        InRoster(w.id, ortools_result.schedule[day][s]) /\ s \notin w.preferred_shifts

Occurrences(id, roster) == Cardinality({k \in 1..Len(roster) : roster[k] = id})

\* the decoded result agrees with the values of the solver's variables
DecodedMatches ==
  Solved =>
    \A w \in Workers :
       /\ \A day \in DaySet, s \in ShiftSet :
             /\ InRoster(w.id, ortools_result.schedule[day][s])
                  <=> solver_values[<<w.id, day, s>>] = 1
             /\ Occurrences(w.id, ortools_result.schedule[day][s]) <= 1
       /\ ortools_result.employee_hours[w.id] * 60 = RosterMinutes(w)

\* C17: when ortools_scheduler returns a schedule, a worker id is in
\* schedule[day][shift] iff the worker's variable for (day, shift) is 1, at
\* most once per roster, employee_hours of a worker is the sum of the hours
\* (5, 5, 3) of the rosters holding the worker, and the call left the
\* employee table and the values of the variables as they were.
C17_DecodeConsistent ==
  [][(pc = "call" /\ pc' = "returned") =>
       /\ employees' = employees
       /\ Solved' => Feasible(employees, solver_values')
       /\ DecodedMatches']_vars

\* a returned schedule with a worker in the morning and the evening roster
\* of a day and not in the afternoon roster, 8 hours in all
C17_Witness ==
  /\ Solved
  /\ \E w \in Workers, day \in DaySet :
        /\ ortools_result.employee_hours[w.id] = 5 + 3
        /\ InRoster(w.id, ortools_result.schedule[day]["morning"])
        /\ InRoster(w.id, ortools_result.schedule[day]["evening"])
        /\ ~InRoster(w.id, ortools_result.schedule[day]["afternoon"])

(***************************************************************************)
(* labour_scheduler_simple.py: LaborSchedulingSystem.optimize_schedule.    *)
(* A schedule text is a sequence of characters.                            *)
(***************************************************************************)
UpperCase ==
  <<"A", "B", "C", "D", "E", "F", "G", "H", "I", "J", "K", "L", "M",
    "N", "O", "P", "Q", "R", "S", "T", "U", "V", "W", "X", "Y", "Z">>

LowerCase ==
  <<"a", "b", "c", "d", "e", "f", "g", "h", "i", "j", "k", "l", "m",
    "n", "o", "p", "q", "r", "s", "t", "u", "v", "w", "x", "y", "z">>

\* str.lower()
lower(text) ==
  [i \in 1..Len(text) |->
     IF \E k \in 1..Len(UpperCase) : UpperCase[k] = text[i]
       THEN LowerCase[CHOOSE k \in 1..Len(UpperCase) : UpperCase[k] = text[i]]
       ELSE text[i]]

\* keyword in text
IsSubstring(keyword, text) ==
  \E i \in 0..(Len(text) - Len(keyword)) : SubSeq(text, i + 1, i + Len(keyword)) = keyword

conflict_checks ==
  {<<"v", "i", "o", "l", "a", "t", "i", "o", "n">>,
   <<"c", "o", "n", "f", "l", "i", "c", "t">>,
   <<"m", "i", "s", "s", "i", "n", "g", " ", "c", "o", "v", "e", "r", "a", "g", "e">>,
   <<"u", "n", "d", "e", "r", "s", "t", "a", "f", "f", "e", "d">>,
   <<"o", "v", "e", "r", "w", "o", "r", "k", "e", "d">>,
   <<"c", "o", "n", "s", "t", "r", "a", "i", "n", "t", " ", "n", "o", "t", " ", "m", "e", "t">>,
   <<"b", "r", "e", "a", "k", " ", "v", "i", "o", "l", "a", "t", "i", "o", "n">>}

has_conflicts(schedule_text) ==
  LET schedule_lower == lower(schedule_text)
  IN \E keyword \in conflict_checks : IsSubstring(keyword, schedule_lower)

\* what the scheduler agent may answer: a beginning, a space and an ending
TextHeads ==
  {<<"S", "h", "i", "f", "t", " ", "t", "a", "b", "l", "e">>,
   <<"N", "o">>,
   <<"V", "I", "O", "L", "A", "T", "I", "O", "N", ":">>,
   <<"S", "a", "t", " ", "m", "i", "s", "s", "i", "n", "g">>,
   <<"T", "e", "a", "m">>}

TextTails ==
  {<<"o", "k">>,
   <<"c", "o", "n", "f", "l", "i", "c", "t", "s">>,
   <<"B", "o", "b">>,
   <<"c", "o", "v", "e", "r", "a", "g", "e", " ", "g", "a", "p">>,
   <<"U", "n", "d", "e", "r", "s", "t", "a", "f", "f", "e", "d">>}

ScheduleTexts == {h \o <<" ">> \o t : h \in TextHeads, t \in TextTails}

\* the largest max_iterations a call is made with
MaxIterations == 3

InitSimple ==
  /\ employees = None
  /\ requirements = None
  /\ pc = "initial_chat"
  /\ solver_status = "NOT_SOLVED"
  /\ solver_values = None
  /\ ortools_result = None
  /\ reviewed = None
  /\ check = "none"
  /\ agent_returned = 0
  /\ agent_raised = 0
  /\ solver_calls = 0
  /\ result = None
  /\ PocIdle
  /\ max_iterations \in 0..MaxIterations
  /\ current_schedule = None
  /\ raised = None

\* lines 262-294 once the chat of line 263 has returned.  A text without a
\* conflict keyword is returned at line 267.  Otherwise the loop of line 270
\* is entered: its first statement, the print of line 271, reads the name
\* iteration, which is bound nowhere (the loop variable is _), so the first
\* round raises NameError before any chat of the round; with no round to run
\* line 294 returns the text.
InitialChatReturns ==
  /\ pc = "initial_chat"
  /\ \E text \in ScheduleTexts :
        /\ current_schedule' = text
        /\ IF ~has_conflicts(text)
             THEN pc' = "returned" /\ raised' = None
             ELSE IF max_iterations > 0
                    THEN pc' = "raised" /\ raised' = "NameError"
                    ELSE pc' = "returned" /\ raised' = None
  /\ agent_returned' = agent_returned + 1
  /\ UNCHANGED <<solverData, reviewed, check, agent_raised, solver_calls, result,
                 pocVars, max_iterations>>

\* the chat of line 263 raises: the exception leaves optimize_schedule
InitialChatRaises ==
  /\ pc = "initial_chat"
  /\ pc' = "raised"
  /\ raised' = "ChatError"
  /\ agent_raised' = agent_raised + 1
  /\ UNCHANGED <<solverData, reviewed, check, agent_returned, solver_calls, result,
                 pocVars, max_iterations, current_schedule>>

NextSimple == InitialChatReturns \/ InitialChatRaises

SpecSimple == InitSimple /\ [][NextSimple]_vars

(***************************************************************************)
(* Properties of optimize_schedule, checked under SpecSimple.              *)
(***************************************************************************)
\* C18: optimize_schedule returns a schedule text: the initial one at once
\* when it holds no conflict keyword; the refinement rounds raise no error of
\* their own, so a call in which every chat returned ends by returning.
C18_RefinementReturnsText ==
  /\ pc = "returned" => current_schedule \in ScheduleTexts
  /\ (pc \in {"returned", "raised"} /\ current_schedule # None
        /\ ~has_conflicts(current_schedule)) => pc = "returned"
  /\ (pc \in {"returned", "raised"} /\ agent_raised = 0) => pc = "returned"

(***************************************************************************)
(* The tables of generate_employee_data, checked under Spec.               *)
(***************************************************************************)
\* exactly two workers with role manager, each with max_hours 40
GeneratedShape(emps) ==
  /\ Cardinality({i \in 1..Len(emps) : emps[i].role = "manager"}) = 2
  /\ \A i \in 1..Len(emps) : emps[i].role = "manager" => emps[i].max_hours = 40

\* C19: on an employee table with exactly two managers of max_hours 40 each,
\* as generate_employee_data builds them, ortools_scheduler returns status
\* 'infeasible' and the solver never answers with a schedule, so a run that
\* reaches the solver ends with method 'failed'.
C19_GeneratedTablesInfeasible ==
  (solver_calls >= 1 /\ GeneratedShape(employees)) =>
     /\ solver_status \notin {"OPTIMAL", "FEASIBLE"}
     /\ ortools_result = NoSolution
     /\ pc = "done"
     /\ result.method = "failed"

\* a run on a generated table that reached the solver and got a proof of
\* infeasibility
C19_Witness ==
  /\ pc = "done"
  /\ employees \in GeneratedTables
  /\ solver_calls = 1
  /\ solver_status = "INFEASIBLE"
  /\ result = NoFeasible(NoSolution)

(***************************************************************************)
(* The lower hour bound, checked under SpecSolver.                         *)
(***************************************************************************)
\* the minutes of all the (day, shift) slots the worker is available for
AvailableMinutes(w) ==
  SumSeq([n \in 1..Len(SlotSeq) |->
            IF Available(w, SlotSeq[n][1], SlotSeq[n][2])
              THEN shift_durations[SlotSeq[n][2]] ELSE 0])

\* C20: when some worker's available slots add up to fewer minutes than
\* min_hours * 60, ortools_scheduler returns no schedule and status
\* 'infeasible', whatever the other workers could cover; and a returned
\* schedule has every worker with min_hours > 0 in some roster.
C20_MinHoursUnconditional ==
  Returned =>
    /\ (\E w \in Workers : AvailableMinutes(w) < w.min_hours * 60)
          => ortools_result = NoSolution
    /\ Solved => \A w \in Workers : w.min_hours > 0 => RosterMinutes(w) > 0

\* a call that ended 'infeasible' on a table in which one worker with
\* min_hours > 0 is available for no slot while the others, without that
\* worker, have a satisfying assignment
C20_Witness ==
  /\ Returned
  /\ solver_status = "INFEASIBLE"
  /\ ortools_result = NoSolution
  /\ Len(employees) = Len(Core) + 1
  /\ SubSeq(employees, 1, Len(Core)) = Core
  /\ AvailableMinutes(employees[Len(employees)]) = 0
  /\ employees[Len(employees)].min_hours > 0

====
